---- MODULE Spec2Model ----
(***************************************************************************)
(* XMLHttpRequestPromise: a fluent builder over one XMLHttpRequest handle  *)
(* and its upload sub-handle.  Two variants of the class are modelled:     *)
(*   "later"   src/XMLHttpRequestPromise.js  (isOpen flag, openRequest,    *)
(*             sendRequest)                                                *)
(*   "earlier" src/unnamed/part_000          (no flag, build opens itself) *)
(* The handle is the host's: its open/send/event behaviour follows the     *)
(* XMLHttpRequest standard at the places the class calls it.               *)
(***************************************************************************)
EXTENDS Integers, Sequences, FiniteSets, TLC

VARIABLES
  variant,        \* which class the instance is: "later" or "earlier"
  method,         \* this._method, a string (sequence of characters)
  url,            \* this._url
  async,          \* this._async (later variant only)
  isOpen,         \* this._isOpen (later variant only)
  xhrState,       \* the handle's state: "UNSENT", "OPENED", "HEADERS", "DONE"
  sendFlag,       \* the handle's send() flag
  uploadComplete, \* the handle's upload complete flag
  xhrStatus,      \* xhr.status
  xhrStatusText,  \* xhr.statusText
  xhrResponse,    \* xhr.response
  opened,         \* arguments of the latest xhr.open invocation
  sentBody,       \* argument of the latest successful xhr.send
  openCalls,      \* number of invocations of xhr.open
  openOk,         \* number of those that returned without throwing
  sendCalls,      \* number of invocations of xhr.send
  handlers,       \* xhr.onload / xhr.onerror: 0 when unset, else the promise they settle
  owner,          \* the promise whose call's xhr.send started the transfer in flight (0: none)
  delivered,      \* promises whose own transfer got its terminal event
  promises,       \* the results returned by sendRequest / build, in call order
  uploadListener, \* the handle's upload listener flag, set by send
  listeners,      \* wrappers registered with addEventListener, in call order
  calls           \* what the wrappers run by the latest step did

vars == <<variant, method, url, async, isOpen, xhrState, sendFlag, uploadComplete,
          xhrStatus, xhrStatusText, xhrResponse, opened, sentBody, openCalls, openOk,
          sendCalls, handlers, owner, delivered, uploadListener, promises, listeners,
          calls>>

builderVars == <<method, url, async, isOpen>>
xhrVars == <<xhrState, sendFlag, uploadComplete, xhrStatus, xhrStatusText, xhrResponse,
             opened, sentBody, openCalls, openOk, sendCalls, handlers, owner, delivered,
             uploadListener>>

----------------------------------------------------------------------------
(* Bounds of the model *)

MaxSends == 2        \* calls of sendRequest / build that reach the promise
MaxListeners == 1    \* listener registrations that succeed
MaxOpenCalls == 2    \* invocations of xhr.open by openRequest

----------------------------------------------------------------------------
(* Strings whose characters matter are sequences of one-character strings. *)

GET == <<"G", "E", "T">>
HEAD == <<"H", "E", "A", "D">>
POST == <<"P", "O", "S", "T">>
PUT == <<"P", "U", "T">>
DELETE == <<"D", "E", "L", "E", "T", "E">>
CONNECT == <<"C", "O", "N", "N", "E", "C", "T">>
OPTIONS == <<"O", "P", "T", "I", "O", "N", "S">>
TRACE == <<"T", "R", "A", "C", "E">>
PATCH == <<"P", "A", "T", "C", "H">>

Lower == <<"a", "c", "d", "e", "g", "h", "i", "k", "l", "n", "o", "p", "r", "s", "t", "u">>
Upper == <<"A", "C", "D", "E", "G", "H", "I", "K", "L", "N", "O", "P", "R", "S", "T", "U">>

\* String.prototype.toUpperCase on one character: a lower-case letter maps to its
\* capital, U+017F (long s) maps to "S", anything else is kept.
\* UpperTable: the characters toUpperCase changes, each with its upper-case form
UpperTable ==
  [c \in {Lower[i] : i \in 1..Len(Lower)} \cup {"long_s"} |->
     IF c = "long_s" THEN "S" ELSE Upper[CHOOSE i \in 1..Len(Lower) : Lower[i] = c]]

UpperChar(c) == IF c \in DOMAIN UpperTable THEN UpperTable[c] ELSE c

ToUpperCase_keep(s) == s

ToUpperCase(s) == [i \in 1..Len(s) |-> UpperChar(s[i])]

\* the case labels of setMethod's switch
Verbs == {GET, HEAD, POST, PUT, DELETE, CONNECT, OPTIONS, TRACE, PATCH}

IsVerb_andTrack(m) == m \in Verbs \cup {<<"T", "R", "A", "C", "K">>}

IsVerb(m) == m \in Verbs

\* arguments tried for setMethod
MethodInputs ==
  { <<"g", "e", "t">>, <<"G", "e", "T">>, <<"p", "o", "s", "t">>,
    <<"c", "o", "n", "n", "e", "c", "t">>, <<"p", "o", "long_s", "t">>,
    <<"g", "e", "t", " ">>, <<>>, <<"t", "r", "a", "c", "k">> }

UrlInputs == {"/", "/api"}

\* the body passed to send; "null" is what the handle holds before any send
BodyInputs == {"a=1"}

----------------------------------------------------------------------------

NoValue == [kind |-> "none", status |-> 0, statusText |-> "", data |-> ""]
Pending == [state |-> "pending", value |-> NoValue]

Init ==
  /\ variant \in {"later", "earlier"}
  /\ method = GET
  /\ url = "/"
  /\ async = TRUE
  /\ isOpen = FALSE
  /\ xhrState = "UNSENT"
  /\ sendFlag = FALSE
  /\ uploadComplete = FALSE
  /\ xhrStatus = 0
  /\ xhrStatusText = ""
  /\ xhrResponse = ""
  /\ opened = [method |-> <<>>, url |-> "", async |-> TRUE]
  /\ sentBody = "null"
  /\ openCalls = 0
  /\ openOk = 0
  /\ sendCalls = 0
  /\ handlers = 0
  /\ owner = 0
  /\ delivered = {}
  /\ uploadListener = FALSE
  /\ promises = <<>>
  /\ listeners = <<>>
  /\ calls = <<>>

\* an operation that throws to its caller before it has changed anything
Throw == UNCHANGED vars

----------------------------------------------------------------------------
(* Later variant: the setters *)

\* the Error setMethod(m) throws, "none" when it returns
setMethodThrows_noGuard(m) ==
  IF ~IsVerb(ToUpperCase(m)) THEN "InvalidVerb" ELSE "none"

setMethodThrows(m) ==
  IF isOpen THEN "AlreadyOpen"
  ELSE IF ~IsVerb(ToUpperCase(m)) THEN "InvalidVerb"
  ELSE "none"

setMethod(m) ==
  /\ variant = "later"
  /\ IF setMethodThrows(m) # "none"
       THEN Throw
       ELSE /\ method' = ToUpperCase(m)
            /\ calls' = <<>>
            /\ UNCHANGED <<variant, url, async, isOpen, xhrVars, promises, listeners>>

setUrlThrows == IF isOpen THEN "AlreadyOpen" ELSE "none"

setUrl(u) ==
  /\ variant = "later"
  /\ IF setUrlThrows # "none"
       THEN Throw
       ELSE /\ url' = u
            /\ calls' = <<>>
            /\ UNCHANGED <<variant, method, async, isOpen, xhrVars, promises, listeners>>

setAsyncThrows == IF isOpen THEN "AlreadyOpen" ELSE "none"

setAsync(a) ==
  /\ variant = "later"
  /\ IF setAsyncThrows # "none"
       THEN Throw
       ELSE /\ async' = a
            /\ calls' = <<>>
            /\ UNCHANGED <<variant, method, url, isOpen, xhrVars, promises, listeners>>

----------------------------------------------------------------------------
(* The handle's open primitive, as openRequest and build call it *)

\* xhr.open throws a SecurityError for a forbidden method
XhrOpenThrows(m) == m \in {CONNECT, TRACE}

\* xhr.open(m, u, a) returning: the handle is (re)initialised and opened, a transfer
\* in flight is dropped without any event; the send() flag, unset by open, is left to
\* the caller, which may go on to send in the same step
XhrOpen_defaultUrl(m, u, a) ==
  /\ opened' = [method |-> m, url |-> "/", async |-> a]
  /\ xhrState' = "OPENED"
  /\ xhrStatus' = 0
  /\ xhrStatusText' = ""
  /\ xhrResponse' = ""
  /\ openOk' = openOk + 1

XhrOpen(m, u, a) ==
  /\ opened' = [method |-> m, url |-> u, async |-> a]
  /\ xhrState' = "OPENED"
  /\ xhrStatus' = 0
  /\ xhrStatusText' = ""
  /\ xhrResponse' = ""
  /\ openOk' = openOk + 1

\* this.xhr.open(this.method, this.url, this.async); this._isOpen = true;
\* an open that throws leaves the handle and _isOpen as they were
OpenAndMark_markFirst ==
  /\ openCalls < MaxOpenCalls
  /\ openCalls' = openCalls + 1
  /\ calls' = <<>>
  /\ isOpen' = TRUE
  /\ IF XhrOpenThrows(method)
       THEN /\ opened' = [method |-> method, url |-> url, async |-> async]
            /\ UNCHANGED <<variant, method, url, async, xhrState, sendFlag, uploadComplete,
                           xhrStatus, xhrStatusText, xhrResponse, sentBody, openOk,
                           sendCalls, handlers, owner, delivered, uploadListener,
                           promises, listeners>>
       ELSE /\ XhrOpen(method, url, async)
            /\ sendFlag' = FALSE
            /\ UNCHANGED <<variant, method, url, async, uploadComplete, sentBody,
                           sendCalls, handlers, owner, delivered, uploadListener,
                           promises, listeners>>

OpenAndMark ==
  /\ openCalls < MaxOpenCalls
  /\ openCalls' = openCalls + 1
  /\ calls' = <<>>
  /\ IF XhrOpenThrows(method)
       THEN /\ opened' = [method |-> method, url |-> url, async |-> async]
            /\ UNCHANGED <<variant, builderVars, xhrState, sendFlag, uploadComplete,
                           xhrStatus, xhrStatusText, xhrResponse, sentBody, openOk,
                           sendCalls, handlers, owner, delivered, uploadListener,
                           promises, listeners>>
       ELSE /\ XhrOpen(method, url, async)
            /\ sendFlag' = FALSE
            /\ isOpen' = TRUE
            /\ UNCHANGED <<variant, method, url, async, uploadComplete, sentBody,
                           sendCalls, handlers, owner, delivered, uploadListener,
                           promises, listeners>>

\* the Error openRequest throws, "none" when it returns
openRequestThrows_noGuard ==
  IF XhrOpenThrows(method) THEN "SecurityError" ELSE "none"

openRequestThrows ==
  IF isOpen THEN "AlreadyOpen"
  ELSE IF XhrOpenThrows(method) THEN "SecurityError"
  ELSE "none"

openRequest ==
  /\ variant = "later"
  /\ IF openRequestThrows = "AlreadyOpen" THEN Throw ELSE OpenAndMark

----------------------------------------------------------------------------
(* Listener registration *)

EventInputs == {"abort", "error", "load", "progress", "loadend", "loadstart",
                "timeout", "readystatechange", "click", "LOAD"}

\* the switch on the event name: which case the name falls in
EventCase_timeoutFalls(event) ==
  IF event \in {"abort", "error", "load", "progress", "timeout"} THEN "wrapper"
  ELSE IF event \in {"loadend", "loadstart", "readystatechange"} THEN "NotImplemented"
  ELSE "InvalidEvent"

EventCase(event) ==
  IF event \in {"abort", "error", "load", "progress"} THEN "wrapper"
  ELSE IF event \in {"loadend", "loadstart", "timeout", "readystatechange"}
    THEN "NotImplemented"
  ELSE "InvalidEvent"

\* whether optionalCallback is passed; only the load wrapper ever reads it
OptionalInputs(event) == IF event = "load" THEN BOOLEAN ELSE {TRUE}

\* the Error a registration throws, "none" when it returns
RegisterThrows(event) == IF EventCase(event) = "wrapper" THEN "none" ELSE EventCase(event)

Register(target, event, optional) ==
  IF RegisterThrows(event) # "none"
    THEN Throw
    ELSE /\ Len(listeners) < MaxListeners
         /\ listeners' = Append(listeners,
                                [target |-> target, event |-> event, optional |-> optional])
         /\ calls' = <<>>
         /\ UNCHANGED <<variant, builderVars, xhrVars, promises>>

\* both variants: the two classes differ here only in the text of the errors
setEventListener(event, optional) ==
  /\ event \in EventInputs
  /\ Register("xhr", event, optional)

setUploadEventListener(event, optional) ==
  /\ event \in EventInputs
  /\ Register("upload", event, optional)

----------------------------------------------------------------------------
(* The wrappers (_function) and their dispatch *)

NoProgress == [kind |-> "none", n |-> 0]

\* (lengthComputable, loaded, total) of the progress events tried; the host reports a
\* computable length only for a total above 0, an event the application dispatches
\* itself can carry any values
ProgressInputs ==
  { <<TRUE, 50, 200>>, <<TRUE, 1, 3>>, <<TRUE, 200, 200>>, <<TRUE, 0, 0>>,
    <<FALSE, 50, 200>>, <<FALSE, 0, 0>> }

Event(type, target) ==
  [type |-> type, target |-> target, lengthComputable |-> FALSE, loaded |-> 0, total |-> 0]

ProgressEvent(target, p) ==
  [type |-> "progress", target |-> target, lengthComputable |-> p[1], loaded |-> p[2],
   total |-> p[3]]

\* Math.floor((loaded * 100) / total) on non-negative numbers: 0/0 is NaN, x/0 Infinity
FloorPercent_scaleLate(loaded, total) ==
  IF total = 0
    THEN (IF loaded = 0 THEN [kind |-> "NaN", n |-> 0] ELSE [kind |-> "Infinity", n |-> 0])
    ELSE [kind |-> "num", n |-> (loaded \div total) * 100]

FloorPercent(loaded, total) ==
  IF total = 0
    THEN (IF loaded = 0 THEN [kind |-> "NaN", n |-> 0] ELSE [kind |-> "Infinity", n |-> 0])
    ELSE [kind |-> "num", n |-> (loaded * 100) \div total]

\* evt.target.status === 200, st being the handle's status when the wrapper runs:
\* evt.target is the object the event is dispatched on, and the upload object has no
\* status property, so there the comparison is of undefined with 200
TargetStatusIs200(evt, st) == evt.target = "xhr" /\ st = 200

LoadWrapper(l, i, evt, st) ==
  IF TargetStatusIs200(evt, st)
    THEN [listener |-> i, cb |-> "callback", progress |-> NoProgress, evt |-> evt]
    ELSE IF l.optional
      THEN [listener |-> i, cb |-> "optionalCallback", progress |-> NoProgress, evt |-> evt]
      ELSE [listener |-> i, cb |-> "TypeError", progress |-> NoProgress, evt |-> evt]

ProgressWrapper(l, i, evt) ==
  IF evt.lengthComputable
    THEN [listener |-> i, cb |-> "callback", progress |-> FloorPercent(evt.loaded, evt.total),
          evt |-> evt]
    ELSE [listener |-> i, cb |-> "callback", progress |-> [kind |-> "num", n |-> 0],
          evt |-> evt]

\* what listener i, registered as l, does with evt
Wrapper(l, i, evt, st) ==
  IF l.event = "load" THEN LoadWrapper(l, i, evt, st)
  ELSE IF l.event = "progress" THEN ProgressWrapper(l, i, evt)
  ELSE [listener |-> i, cb |-> "callback", progress |-> NoProgress, evt |-> evt]

RECURSIVE DispatchFrom(_, _, _)
DispatchFrom(i, evt, st) ==
  IF i > Len(listeners) THEN <<>>
  ELSE IF listeners[i].target = evt.target /\ listeners[i].event = evt.type
    THEN <<Wrapper(listeners[i], i, evt, st)>> \o DispatchFrom(i + 1, evt, st)
    ELSE DispatchFrom(i + 1, evt, st)

\* the host runs, in registration order, the wrappers added for evt's name on evt's target
Dispatch(evt, st) == DispatchFrom(1, evt, st)

----------------------------------------------------------------------------
(* The returned promise and the handlers that settle it *)

\* resolve / reject: only a pending promise changes
Settle(ps, k, state, value) ==
  IF k = 0 \/ ps[k].state # "pending" THEN ps
  ELSE [ps EXCEPT ![k] = [state |-> state, value |-> value]]

Response(r) == [kind |-> "response", status |-> 0, statusText |-> "", data |-> r]
StatusObject(st, txt) == [kind |-> "statusObject", status |-> st, statusText |-> txt, data |-> ""]
Exception(name) == [kind |-> "exception", status |-> 0, statusText |-> "", data |-> name]

\* request.xhr.status >= 200 && request.xhr.status < 300
StatusOk(st) == st >= 200 /\ st < 300

\* sendRequest's request.xhr.onload, settling promise k
OnLoad(ps, k, st, txt, resp) ==
  IF StatusOk(st)
    THEN Settle(ps, k, "fulfilled", Response(resp))
    ELSE Settle(ps, k, "rejected", StatusObject(st, txt))

\* sendRequest's request.xhr.onerror
OnError(ps, k, st, txt) == Settle(ps, k, "rejected", StatusObject(st, txt))

\* build's handlers are arrow functions inside makeRequest, which build calls as a
\* plain function: their `this` is undefined where the code runs as strict code (a
\* class body, a module) and the global object where the class was compiled to
\* functions of a script
ThisInputs == {"undefined", "globalThis"}

\* {status: this.status, statusText: request.xhr.statusText} with this the global
\* object: window.status, the empty string unless the page has set it
WindowStatusObject(txt) ==
  [kind |-> "windowStatusObject", status |-> 0, statusText |-> txt, data |-> ""]

\* this.status >= 200 && this.status < 300: a TypeError on undefined, which settles
\* nothing; false on the global object ("" compares as 0), which rejects
EarlyOnLoad(ps, k, this, st, txt, resp) ==
  IF this = "undefined" THEN ps
  ELSE Settle(ps, k, "rejected", WindowStatusObject(txt))

EarlyOnError(ps, k, this, st, txt) ==
  IF this = "undefined" THEN ps
  ELSE Settle(ps, k, "rejected", WindowStatusObject(txt))

\* the handler installed on the handle, of whichever class installed it
RunOnLoad(ps, k, this, st, txt, resp) ==
  IF variant = "later" THEN OnLoad(ps, k, st, txt, resp)
  ELSE EarlyOnLoad(ps, k, this, st, txt, resp)

RunOnError(ps, k, this, st, txt) ==
  IF variant = "later" THEN OnError(ps, k, st, txt)
  ELSE EarlyOnError(ps, k, this, st, txt)

----------------------------------------------------------------------------
(* The transport: what the host does between send and the terminal event *)

\* (status, statusText) of the responses tried
HeaderInputs ==
  { <<199, "">>, <<200, "OK">>, <<201, "Created">>, <<299, "">>,
    <<300, "Multiple Choices">> }

ResponseInputs == {"{ok:true}"}

\* the response's status line and headers arrive
XhrHeaders(h) ==
  /\ sendFlag /\ xhrState = "OPENED"
  /\ xhrState' = "HEADERS"
  /\ xhrStatus' = h[1]
  /\ xhrStatusText' = h[2]
  /\ calls' = <<>>
  /\ UNCHANGED <<variant, builderVars, sendFlag, uploadComplete, xhrResponse, opened,
                 sentBody, openCalls, openOk, sendCalls, handlers, owner, delivered,
                 uploadListener, promises, listeners>>

\* the request body is fully transmitted: load at the upload object
XhrUploadLoad ==
  /\ sendFlag /\ ~uploadComplete /\ uploadListener
  /\ uploadComplete' = TRUE
  /\ calls' = Dispatch(Event("load", "upload"), xhrStatus)
  /\ UNCHANGED <<variant, builderVars, xhrState, sendFlag, xhrStatus, xhrStatusText,
                 xhrResponse, opened, sentBody, openCalls, openOk, sendCalls, handlers,
                 owner, delivered, uploadListener, promises, listeners>>

\* progress at the handle (response body arriving) or at the upload object
XhrProgress(target, p) ==
  /\ sendFlag
  /\ IF target = "xhr" THEN xhrState = "HEADERS" ELSE ~uploadComplete /\ uploadListener
  /\ calls' = Dispatch(ProgressEvent(target, p), xhrStatus)
  /\ UNCHANGED <<variant, builderVars, xhrVars, promises, listeners>>

\* the response body is complete: the terminal load event at the handle
XhrLoad(resp) ==
  /\ sendFlag /\ xhrState = "HEADERS"
  /\ xhrState' = "DONE"
  /\ sendFlag' = FALSE
  /\ xhrResponse' = resp
  /\ calls' = Dispatch(Event("load", "xhr"), xhrStatus)
  /\ \E this \in ThisInputs :
       promises' = RunOnLoad(promises, handlers, this, xhrStatus, xhrStatusText, resp)
  /\ delivered' = delivered \cup {owner}
  /\ owner' = 0
  /\ UNCHANGED <<variant, builderVars, uploadComplete, xhrStatus, xhrStatusText, opened,
                 sentBody, openCalls, openOk, sendCalls, handlers, uploadListener,
                 listeners>>

\* the transfer fails: the response is a network error (status 0, empty statusText);
\* error at the upload object when the upload was not complete, then at the handle
XhrError ==
  /\ sendFlag /\ xhrState \in {"OPENED", "HEADERS"}
  /\ xhrState' = "DONE"
  /\ sendFlag' = FALSE
  /\ xhrStatus' = 0
  /\ xhrStatusText' = ""
  /\ xhrResponse' = ""
  /\ uploadComplete' = TRUE
  /\ calls' = (IF ~uploadComplete /\ uploadListener
                 THEN Dispatch(Event("error", "upload"), 0) ELSE <<>>)
              \o Dispatch(Event("error", "xhr"), 0)
  /\ \E this \in ThisInputs : promises' = RunOnError(promises, handlers, this, 0, "")
  /\ delivered' = delivered \cup {owner}
  /\ owner' = 0
  /\ UNCHANGED <<variant, builderVars, opened, sentBody, openCalls, openOk, sendCalls,
                 handlers, uploadListener, listeners>>

\* xhr.abort() on the handle the getter exposes: abort events, no load and no error
XhrAbort ==
  /\ sendFlag
  /\ xhrState' = "UNSENT"
  /\ sendFlag' = FALSE
  /\ xhrStatus' = 0
  /\ xhrStatusText' = ""
  /\ xhrResponse' = ""
  /\ uploadComplete' = TRUE
  /\ calls' = (IF ~uploadComplete /\ uploadListener
                 THEN Dispatch(Event("abort", "upload"), 0) ELSE <<>>)
              \o Dispatch(Event("abort", "xhr"), 0)
  /\ owner' = 0
  /\ UNCHANGED <<variant, builderVars, opened, sentBody, openCalls, openOk, sendCalls,
                 handlers, delivered, uploadListener, promises, listeners>>

----------------------------------------------------------------------------
(* Later variant: sendRequest *)

\* xhr.send throws an InvalidStateError unless the handle is opened and not yet sent
XhrSendThrows == xhrState # "OPENED" \/ sendFlag

\* send ignores the body of a GET or HEAD request: nothing is left to upload
NothingToUpload(m, body) == body = "null" \/ m \in {GET, HEAD}

HasUploadListener == \E i \in 1..Len(listeners) : listeners[i].target = "upload"

\* xhr.send(body) returning on an asynchronous handle: the transfer starts
XhrSendAsync(k, body) ==
  /\ sendFlag' = TRUE
  /\ sentBody' = body
  /\ uploadComplete' = NothingToUpload(opened.method, body)
  /\ uploadListener' = HasUploadListener
  /\ owner' = k

\* what a synchronous send ends with: a response, or a network error that send throws
SyncOutcomes ==
  { <<"response", h, r>> : h \in HeaderInputs, r \in ResponseInputs }
    \cup { <<"NetworkError", <<0, "">>, "">> }

\* new Promise(executor) of makeRequest, as promise k: the handlers are installed,
\* then send is invoked; what the executor throws rejects the promise
MakeRequest(k, body) ==
  /\ handlers' = k
  /\ sendCalls' = sendCalls + 1
  /\ IF XhrSendThrows
       THEN /\ promises' = Append(promises, [state |-> "rejected",
                                             value |-> Exception("InvalidStateError")])
            /\ calls' = <<>>
            /\ UNCHANGED <<xhrState, sendFlag, uploadComplete, xhrStatus, xhrStatusText,
                           xhrResponse, sentBody, owner, delivered, uploadListener>>
       ELSE IF opened.async
         THEN /\ XhrSendAsync(k, body)
              /\ promises' = Append(promises, Pending)
              /\ calls' = <<>>
              /\ UNCHANGED <<xhrState, xhrStatus, xhrStatusText, xhrResponse, delivered>>
         ELSE \E o \in SyncOutcomes :
              /\ xhrState' = "DONE"
              /\ sendFlag' = FALSE
              /\ sentBody' = body
              /\ uploadComplete' = TRUE
              /\ xhrStatus' = o[2][1]
              /\ xhrStatusText' = o[2][2]
              /\ xhrResponse' = o[3]
              /\ IF o[1] = "NetworkError"
                   THEN /\ promises' = Append(promises, [state |-> "rejected",
                                                         value |-> Exception("NetworkError")])
                        /\ calls' = <<>>
                        /\ UNCHANGED delivered
                   ELSE /\ promises' = OnLoad(Append(promises, Pending), k,
                                              o[2][1], o[2][2], o[3])
                        /\ calls' = Dispatch(Event("load", "xhr"), o[2][1])
                        /\ delivered' = delivered \cup {k}
              /\ UNCHANGED <<owner, uploadListener>>

\* the Error sendRequest throws, "none" when it returns the promise: what the
\* executor throws is caught by the promise
sendRequestThrows_noGuard == "none"

sendRequestThrows == IF ~isOpen THEN "NotOpen" ELSE "none"

sendRequest(body) ==
  /\ variant = "later"
  /\ IF sendRequestThrows # "none"
       THEN Throw
       ELSE /\ Len(promises) < MaxSends
            /\ MakeRequest(Len(promises) + 1, body)
            /\ UNCHANGED <<variant, builderVars, opened, openCalls, openOk, listeners>>

----------------------------------------------------------------------------
(* Earlier variant: setters without a guard, and build *)

early_setMethodThrows(m) == IF ~IsVerb(ToUpperCase(m)) THEN "InvalidVerb" ELSE "none"

early_setMethod(m) ==
  /\ variant = "earlier"
  /\ IF early_setMethodThrows(m) # "none"
       THEN Throw
       ELSE /\ method' = ToUpperCase(m)
            /\ calls' = <<>>
            /\ UNCHANGED <<variant, url, async, isOpen, xhrVars, promises, listeners>>

early_setUrl(u) ==
  /\ variant = "earlier"
  /\ url' = u
  /\ calls' = <<>>
  /\ UNCHANGED <<variant, method, async, isOpen, xhrVars, promises, listeners>>

\* the executor opens the handle itself (always asynchronous), installs its handlers
\* and sends; an open that throws rejects the promise before anything is installed
build(body) ==
  /\ variant = "earlier"
  /\ Len(promises) < MaxSends
  /\ openCalls' = openCalls + 1
  /\ calls' = <<>>
  /\ IF XhrOpenThrows(method)
       THEN /\ opened' = [method |-> method, url |-> url, async |-> TRUE]
            /\ promises' = Append(promises, [state |-> "rejected",
                                             value |-> Exception("SecurityError")])
            /\ UNCHANGED <<xhrState, sendFlag, uploadComplete, xhrStatus, xhrStatusText,
                           xhrResponse, sentBody, openOk, sendCalls, handlers, owner,
                           delivered, uploadListener>>
       ELSE /\ XhrOpen(method, url, TRUE)
            /\ handlers' = Len(promises) + 1
            /\ sendCalls' = sendCalls + 1
            /\ sendFlag' = TRUE
            /\ sentBody' = body
            /\ uploadComplete' = NothingToUpload(method, body)
            /\ uploadListener' = HasUploadListener
            /\ owner' = Len(promises) + 1
            /\ promises' = Append(promises, Pending)
            /\ UNCHANGED delivered
  /\ UNCHANGED <<variant, builderVars, listeners>>

Next ==
  \/ \E m \in MethodInputs : setMethod(m)
  \/ \E u \in UrlInputs : setUrl(u)
  \/ \E a \in BOOLEAN : setAsync(a)
  \/ openRequest
  \/ \E e \in EventInputs : \E o \in OptionalInputs(e) : setEventListener(e, o)
  \/ \E e \in EventInputs : \E o \in OptionalInputs(e) : setUploadEventListener(e, o)
  \/ \E b \in BodyInputs : sendRequest(b)
  \/ \E m \in MethodInputs : early_setMethod(m)
  \/ \E u \in UrlInputs : early_setUrl(u)
  \/ \E b \in BodyInputs : build(b)
  \/ \E h \in HeaderInputs : XhrHeaders(h)
  \/ XhrUploadLoad
  \/ \E t \in {"xhr", "upload"} : \E p \in ProgressInputs : XhrProgress(t, p)
  \/ \E r \in ResponseInputs : XhrLoad(r)
  \/ XhrError
  \/ XhrAbort

Spec == Init /\ [][Next]_vars

\* an instance of the later class alone: its operations and the transport
LaterInit == Init /\ variant = "later"

LaterNext ==
  \/ \E m \in MethodInputs : setMethod(m)
  \/ \E u \in UrlInputs : setUrl(u)
  \/ \E a \in BOOLEAN : setAsync(a)
  \/ openRequest
  \/ \E e \in EventInputs : \E o \in OptionalInputs(e) : setEventListener(e, o)
  \/ \E e \in EventInputs : \E o \in OptionalInputs(e) : setUploadEventListener(e, o)
  \/ \E b \in BodyInputs : sendRequest(b)
  \/ \E h \in HeaderInputs : XhrHeaders(h)
  \/ XhrUploadLoad
  \/ \E t \in {"xhr", "upload"} : \E p \in ProgressInputs : XhrProgress(t, p)
  \/ \E r \in ResponseInputs : XhrLoad(r)
  \/ XhrError
  \/ XhrAbort

LaterSpec == LaterInit /\ [][LaterNext]_vars

----------------------------------------------------------------------------
(* Steps and readings of the state, named for the properties below *)

Later == variant = "later"

XhrLoadStep == \E r \in ResponseInputs : XhrLoad(r)

SetMethodStep(m) == setMethod(m) \/ early_setMethod(m)

SetMethodThrows(m) == IF Later THEN setMethodThrows(m) ELSE early_setMethodThrows(m)

\* the verb an argument of MethodInputs spells, letter case apart (U+017F is a
\* lower-case s); <<>> when it spells none
SpeltTable ==
  [m \in MethodInputs |->
     CASE m = <<"g", "e", "t">> -> GET
       [] m = <<"G", "e", "T">> -> GET
       [] m = <<"p", "o", "s", "t">> -> POST
       [] m = <<"p", "o", "long_s", "t">> -> POST
       [] m = <<"c", "o", "n", "n", "e", "c", "t">> -> CONNECT
       [] OTHER -> <<>>]

Spelt(m) == SpeltTable[m]

\* the listeners a dispatch to (target, type) runs
Registered(target, type) ==
  {j \in 1..Len(listeners) : listeners[j].target = target /\ listeners[j].event = type}

----------------------------------------------------------------------------
\* C1: later variant: once the builder is open, setMethod, setUrl and setAsync throw
\* the already-open error whatever their argument, and no step changes method, url,
\* async or isOpen.
C1_SettersFrozenOnceOpen ==
  [][(Later /\ isOpen) =>
       /\ \A m \in MethodInputs : setMethodThrows(m) = "AlreadyOpen"
       /\ setUrlThrows = "AlreadyOpen"
       /\ setAsyncThrows = "AlreadyOpen"
       /\ method' = method /\ url' = url /\ async' = async /\ isOpen']_vars

\* an open builder configured away from the defaults, its request sent, where a
\* setter is refused and the fields are the ones the handle was opened with
C1_Witness ==
  /\ Later /\ isOpen /\ sendCalls = 1
  /\ method = POST /\ url = "/api" /\ ~async
  /\ setMethodThrows(<<"g", "e", "t">>) = "AlreadyOpen"
  /\ opened = [method |-> method, url |-> url, async |-> async]

\* C2 as claimed: later variant: the handle's open primitive is invoked at most once,
\* isOpen is set by that one invocation, and an openRequest that finds the builder
\* open throws the already-open error.
C2_OpenInvokedAtMostOnce ==
  Later =>
    /\ openCalls <= 1
    /\ (isOpen => openCalls = 1)
    /\ (isOpen => openRequestThrows = "AlreadyOpen")

\* C2 as amended: later variant: the handle's open primitive returns at most once
\* (it may be invoked again after an invocation that threw, while isOpen is still
\* false); isOpen is true exactly when it has returned, is never reset, and an
\* openRequest that finds the builder open throws the already-open error without
\* invoking open.
C2_OpenSucceedsAtMostOnce ==
  [][Later =>
       /\ openOk' <= 1
       /\ (isOpen' <=> openOk' = 1)
       /\ (isOpen => /\ isOpen'
                     /\ openRequestThrows = "AlreadyOpen"
                     /\ openCalls' = openCalls /\ openOk' = openOk)]_vars

\* an open that threw, then one that returned, after which openRequest is refused
C2_Witness ==
  /\ Later /\ isOpen
  /\ openCalls = 2 /\ openOk = 1
  /\ openRequestThrows = "AlreadyOpen"

\* C3: later variant: while the builder is not open sendRequest throws the not-open
\* error, and no handler is installed, no promise created and send not invoked; send
\* is never invoked before open has been.
C3_NoSendBeforeOpen ==
  [][Later =>
       /\ (~isOpen => sendRequestThrows = "NotOpen")
       /\ (~isOpen' => handlers' = 0 /\ sendCalls' = 0 /\ promises' = <<>>)
       /\ (sendCalls' > 0 => openCalls' > 0)]_vars

\* a builder whose open threw: still not open, sendRequest refused, nothing sent
C3_Witness ==
  /\ Later /\ ~isOpen /\ openCalls = 1
  /\ sendRequestThrows = "NotOpen"
  /\ handlers = 0 /\ sendCalls = 0 /\ promises = <<>>

\* C4: later variant: when load fires for the transfer a sendRequest call started,
\* the promise that call returned is fulfilled with xhr.response if the status is in
\* 200..299 and rejected with {status, statusText} otherwise; when error fires it is
\* rejected with {status, statusText}.
C4_TerminalEventSettlesResult ==
  [][(Later /\ owner # 0) =>
       /\ (XhrLoadStep =>
             promises'[owner] =
               IF xhrStatus \in 200..299
                 THEN [state |-> "fulfilled", value |-> Response(xhrResponse')]
                 ELSE [state |-> "rejected",
                       value |-> StatusObject(xhrStatus, xhrStatusText)])
       /\ (XhrError =>
             promises'[owner] =
               [state |-> "rejected",
                value |-> StatusObject(xhrStatus', xhrStatusText')])]_vars

\* C5: a promise returned by sendRequest is settled once the terminal event (load or
\* error) of its own transfer has been delivered.
C5_SettledOnceDelivered ==
  Later => \A k \in 1..Len(promises) : k \in delivered => promises[k].state # "pending"

\* C6: on a builder that is not open, setMethod(m) returns and stores the upper-case
\* verb when m spells one of the nine verbs in any letter case, and otherwise throws
\* the invalid-verb error and leaves method, url, async and isOpen as they are.
C6_SetMethodNormalises ==
  [][~isOpen =>
       \A m \in MethodInputs :
         /\ SetMethodThrows(m) = (IF Spelt(m) # <<>> THEN "none" ELSE "InvalidVerb")
         /\ \/ /\ method' = (IF Spelt(m) # <<>> THEN Spelt(m) ELSE method)
               /\ url' = url /\ async' = async /\ isOpen' = isOpen
            \/ ~SetMethodStep(m)]_vars

\* POST stored from a lower-case spelling, on a builder where "get " is refused
C6_Witness ==
  /\ ~isOpen /\ method = POST
  /\ SetMethodThrows(<<"p", "o", "s", "t">>) = "none"
  /\ SetMethodThrows(<<"g", "e", "t", " ">>) = "InvalidVerb"

\* C7: a load listener given both callbacks, on the handle or on the upload object,
\* runs the primary callback when the request's status is 200 and the secondary one
\* for any other status, each with the event.
C7_LoadListenerByStatus ==
  \A i \in 1..Len(calls) :
    LET l == listeners[calls[i].listener] IN
      (l.event = "load" /\ l.optional) =>
        /\ calls[i].cb = (IF xhrStatus = 200 THEN "callback" ELSE "optionalCallback")
        /\ calls[i].evt = Event("load", l.target)

\* C8: every progress event dispatched runs each progress listener of its target
\* exactly once, with the primary callback and the event; the number passed is
\* floor(loaded * 100 / total) when the length is computable (25 for 50 of 200; not
\* a finite number when total is 0) and 0 otherwise.
C8_ProgressPercent ==
  /\ \A i \in 1..Len(calls) :
       LET c == calls[i]
           e == c.evt
       IN listeners[c.listener].event = "progress" =>
            /\ c.cb = "callback"
            /\ e.type = "progress" /\ e.target = listeners[c.listener].target
            /\ IF ~e.lengthComputable THEN c.progress = [kind |-> "num", n |-> 0]
               ELSE IF e.total = 0 THEN c.progress.kind \in {"NaN", "Infinity"}
               ELSE /\ c.progress.kind = "num"
                    /\ c.progress.n * e.total <= e.loaded * 100
                    /\ e.loaded * 100 < (c.progress.n + 1) * e.total
            /\ (e.lengthComputable /\ e.loaded = 50 /\ e.total = 200 => c.progress.n = 25)
  /\ (calls # <<>> /\ calls[1].evt.type = "progress") =>
       /\ \A i, j \in 1..Len(calls) : calls[i].listener = calls[j].listener => i = j
       /\ {calls[i].listener : i \in 1..Len(calls)}
            = Registered(calls[1].evt.target, "progress")

\* an upload progress listener told 25 for 50 of 200
C8_Witness ==
  \E i \in 1..Len(calls) :
    /\ listeners[calls[i].listener] =
         [target |-> "upload", event |-> "progress", optional |-> TRUE]
    /\ calls[i].evt.loaded = 50 /\ calls[i].evt.total = 200
    /\ calls[i].progress = [kind |-> "num", n |-> 25]

\* C9: in every state both registrations throw the not-implemented error for
\* loadend, loadstart, timeout and readystatechange and the invalid-event error for
\* any name other than those and abort, error, load, progress; every listener the
\* builder has added is for abort, error, load or progress.
C9_OnlySupportedEvents ==
  /\ \A e \in EventInputs :
       RegisterThrows(e) =
         (IF e \in {"abort", "error", "load", "progress"} THEN "none"
          ELSE IF e \in {"loadend", "loadstart", "timeout", "readystatechange"}
            THEN "NotImplemented"
          ELSE "InvalidEvent")
  /\ \A i \in 1..Len(listeners) :
       listeners[i].event \in {"abort", "error", "load", "progress"}

\* a listener added, the request sent, and a timeout registration still refused
C9_Witness ==
  /\ Len(listeners) > 0 /\ sendFlag
  /\ RegisterThrows("timeout") = "NotImplemented"
  /\ RegisterThrows("LOAD") = "InvalidEvent"

\* C10: later variant: sendRequest on an open builder throws nothing to its caller,
\* and every rejected promise carries {status, statusText}.
C10_RejectionsCarryStatus ==
  Later =>
    /\ (isOpen => sendRequestThrows = "none")
    /\ \A k \in 1..Len(promises) :
         promises[k].state = "rejected" => promises[k].value.kind = "statusObject"

\* C11: later variant: the fields start as GET, "/", true and change only by a setter
\* that returns, to the value it was given (the method in upper case); an open that
\* returns was passed the stored method, url and async; a send that returns hands
\* the handle the body it was given; and with POST, "/api", true opened and one
\* sendRequest made, a load with status 201 fulfils its promise with the response.
C11_OpenPassesStoredFields ==
  /\ (Later => method = GET /\ url = "/" /\ async = TRUE)
  /\ [][Later =>
          /\ (method' # method => \E m \in MethodInputs :
                                     setMethod(m) /\ method' = ToUpperCase(m))
          /\ (url' # url => \E u \in UrlInputs : setUrl(u) /\ url' = u)
          /\ (async' # async => \E a \in BOOLEAN : setAsync(a) /\ async' = a)
          /\ (openOk' # openOk =>
                /\ openRequest
                /\ opened' = [method |-> method, url |-> url, async |-> async]
                /\ method' = method /\ url' = url /\ async' = async)
          /\ (\A b \in BodyInputs : (sendRequest(b) /\ sendFlag') => sentBody' = b)
          /\ ((XhrLoadStep /\ sendCalls = 1 /\ xhrStatus = 201
                 /\ opened = [method |-> POST, url |-> "/api", async |-> TRUE]) =>
                promises' = <<[state |-> "fulfilled", value |-> Response(xhrResponse')]>>)
       ]_vars

\* the scenario's end: opened with (POST, /api, true), the body sent, status 201,
\* the one promise fulfilled with the response
C11_Witness ==
  /\ Later /\ isOpen /\ openCalls = 1 /\ sendCalls = 1
  /\ opened = [method |-> POST, url |-> "/api", async |-> TRUE]
  /\ sentBody = "a=1" /\ xhrStatus = 201 /\ xhrState = "DONE"
  /\ promises = <<[state |-> "fulfilled", value |-> Response("{ok:true}")]>>

\* C12: later variant: when load fires for the transfer a sendRequest call started,
\* each load listener added with setEventListener and both callbacks runs the primary
\* callback for status 200 and the secondary one for any other status, while the
\* promise that call returned is fulfilled for a status in 200..299 and rejected
\* otherwise: they disagree exactly for 201..299.
C12_ListenerAndPromiseDisagree ==
  [][(Later /\ owner # 0 /\ XhrLoadStep) =>
       /\ \A i \in 1..Len(calls') :
            listeners[calls'[i].listener].optional =>
              calls'[i].cb = (IF xhrStatus = 200 THEN "callback" ELSE "optionalCallback")
       /\ promises'[owner].state =
            (IF xhrStatus \in 200..299 THEN "fulfilled" ELSE "rejected")]_vars

\* C13: a registration for abort, error, load or progress is accepted whether or not
\* the secondary callback is given, and no wrapper fails on an event dispatched to
\* it, a load wrapper without secondary callback included.
C13_SecondaryCallbackOptional ==
  /\ \A e \in {"abort", "error", "load", "progress"} : RegisterThrows(e) = "none"
  /\ \A i \in 1..Len(calls) : calls[i].cb \in {"callback", "optionalCallback"}

\* C14: earlier variant: build(body), with no open before it, invokes xhr.open with
\* the stored method, the stored url and true, installs the handlers of the promise
\* it returns and sends the body; when load fires for that transfer the promise is
\* fulfilled with xhr.response if the status is in 200..299 and rejected with
\* {status, statusText} otherwise, and when error fires it is rejected with
\* {status, statusText}.
C14_BuildOpensSendsAndSettles ==
  [][variant = "earlier" =>
       /\ \A b \in BodyInputs :
            (build(b) /\ ~XhrOpenThrows(method)) =>
              /\ opened' = [method |-> method, url |-> url, async |-> TRUE]
              /\ openOk' = openOk + 1
              /\ handlers' = Len(promises') /\ owner' = Len(promises')
              /\ sendFlag' /\ sentBody' = b
       /\ ((owner # 0 /\ XhrLoadStep) =>
             promises'[owner] =
               IF xhrStatus \in 200..299
                 THEN [state |-> "fulfilled", value |-> Response(xhrResponse')]
                 ELSE [state |-> "rejected",
                       value |-> StatusObject(xhrStatus, xhrStatusText)])
       /\ ((owner # 0 /\ XhrError) =>
             promises'[owner] =
               [state |-> "rejected",
                value |-> StatusObject(xhrStatus', xhrStatusText')])]_vars

\* C15: later variant: while the transfer a sendRequest call started is in flight,
\* the handlers on the handle are the ones that settle the promise that call
\* returned, however many sendRequest calls followed it; and a promise whose own
\* terminal event came is settled.
C15_SendsDoNotInterfere ==
  Later =>
    /\ (owner # 0 => handlers = owner)
    /\ \A k \in delivered : k # 0 => promises[k].state # "pending"

\* C16: later variant: isOpen is true exactly when an xhr.open invoked by openRequest
\* has returned; an openRequest whose xhr.open throws propagates the SecurityError
\* and leaves isOpen false and method, url and async as they were, after which the
\* setters are still accepted and sendRequest still throws the not-open error.
C16_IsOpenIffOpenReturned ==
  [][Later =>
       /\ (isOpen' <=> openOk' > 0)
       /\ ((openRequest /\ openCalls' # openCalls /\ XhrOpenThrows(method)) =>
             /\ openRequestThrows = "SecurityError"
             /\ openOk' = openOk /\ ~isOpen'
             /\ method' = method /\ url' = url /\ async' = async
             /\ setMethodThrows(<<"g", "e", "t">>)' = "none"
             /\ setUrlThrows' = "none" /\ setAsyncThrows' = "none"
             /\ sendRequestThrows' = "NotOpen")]_vars

\* after an open that threw for CONNECT: not open, the fields set anew, sendRequest
\* refused
C16_Witness ==
  /\ Later /\ ~isOpen /\ openCalls = 1 /\ openOk = 0
  /\ opened.method = CONNECT /\ method = POST /\ url = "/api"
  /\ sendRequestThrows = "NotOpen"

\* C17: both variants: in every reachable state the stored method is one of the
\* nine upper-case verbs, and every xhr.open invoked so far was given one of them.
C17_MethodIsAVerb ==
  /\ method \in {GET, HEAD, POST, PUT, DELETE, CONNECT, OPTIONS, TRACE, PATCH}
  /\ (openCalls > 0 =>
        opened.method \in {GET, HEAD, POST, PUT, DELETE, CONNECT, OPTIONS, TRACE, PATCH})

\* the earlier class after two builds, opened with POST, the method set again since
C17_Witness ==
  /\ variant = "earlier" /\ openCalls = 2
  /\ opened.method = POST /\ method = CONNECT

\* C18: every progress listener run for an event with a computable length and
\* 0 <= loaded <= total, total = 0 included, passes its primary callback an integer
\* in 0..100.
C18_ProgressInRange ==
  \A i \in 1..Len(calls) :
    LET c == calls[i]
        e == c.evt
    IN (listeners[c.listener].event = "progress" /\ e.lengthComputable
          /\ 0 <= e.loaded /\ e.loaded <= e.total) =>
         /\ c.cb = "callback"
         /\ c.progress.kind = "num"
         /\ c.progress.n \in 0..100

====
